---- MODULE Spec2Model ----
(***************************************************************************)
(* Model of build_multi_platform.py: the platform registry, the command    *)
(* line orchestrator (main) and the build runner (build_for_platform) with *)
(* the bash script it assembles and runs inside the container.             *)
(*                                                                         *)
(* Two specifications share the module.  Spec follows main from argument   *)
(* parsing to process exit, over a file system that outlives the process.  *)
(* BuildSpec follows one call of build_for_platform, command by command    *)
(* through the script.                                                     *)
(***************************************************************************)
EXTENDS Integers, Sequences, FiniteSets, TLC

\* Longest --platforms list the model enumerates (argparse nargs="+").
MaxArgs == 2

Range(s) == {s[i] : i \in 1..Len(s)}

----------------------------------------------------------------------------
\* Platform registry

PlatformKeys ==
    <<"ubuntu20.04", "ubuntu22.04", "manylinux_2014", "manylinux_2_24">>

PLATFORM_CONFIGS ==
    [p \in Range(PlatformKeys) |->
        CASE p = "ubuntu20.04" ->
               [image |-> "ubuntu:20.04", system_name |-> "ubuntu20.04",
                setup_commands |-> <<
                    "apt-get update",
                    "apt-get install -y python3 python3-pip sudo wget curl git build-essential",
                    "ln -fs /usr/share/zoneinfo/UTC /etc/localtime",
                    "DEBIAN_FRONTEND=noninteractive apt-get install -y tzdata">>]
          [] p = "ubuntu22.04" ->
               [image |-> "ubuntu:22.04", system_name |-> "ubuntu22.04",
                setup_commands |-> <<
                    "apt-get update",
                    "apt-get install -y python3 python3-pip sudo wget curl git build-essential",
                    "ln -fs /usr/share/zoneinfo/UTC /etc/localtime",
                    "DEBIAN_FRONTEND=noninteractive apt-get install -y tzdata">>]
          [] p = "manylinux_2014" ->
               [image |-> "quay.io/pypa/manylinux_2014_x86_64",
                system_name |-> "manylinux_2014",
                setup_commands |-> <<
                    "yum update -y",
                    "yum install -y python3 python3-pip sudo wget curl git",
                    "yum groupinstall -y 'Development Tools'",
                    "if ! command -v python3 &> /dev/null; then ln -s /usr/bin/python /usr/bin/python3; fi">>]
          [] p = "manylinux_2_24" ->
               [image |-> "quay.io/pypa/manylinux_2_24_x86_64",
                system_name |-> "manylinux_2_24",
                setup_commands |-> <<
                    "yum update -y",
                    "yum install -y python3 python3-pip sudo wget curl git",
                    "yum groupinstall -y 'Development Tools'">>]]

\* argparse choices of --platforms
Choices == Range(PlatformKeys) \cup {"all"}

ArgLists == UNION {[1..n -> Choices] : n \in 1..MaxArgs}

----------------------------------------------------------------------------
\* Host file system: the output root and its per-platform subdirectories.

Root == "output_dir"

Parents(path) == IF path = Root THEN {} ELSE {Root}

\* mkdir without exist_ok: FileExistsError on a directory that is there
Mkdir_no_exist_ok(fs_dirs, path) ==
    IF path \in fs_dirs
    THEN [raised |-> TRUE, dirs |-> fs_dirs]
    ELSE [raised |-> FALSE, dirs |-> fs_dirs \cup Parents(path) \cup {path}]

\* Path.mkdir(parents=True, exist_ok=True)
Mkdir(fs_dirs, path) ==
    IF path \in fs_dirs
    THEN [raised |-> FALSE, dirs |-> fs_dirs]
    ELSE [raised |-> FALSE, dirs |-> fs_dirs \cup Parents(path) \cup {path}]

----------------------------------------------------------------------------
\* Outcomes of external processes

\* subprocess.run(["docker", "--version"], check=True, capture_output=True)
ProbeOutcomes == {"ok", "nonzero", "missing"}

\* the probe without check=True: only a missing executable is noticed
DockerAvailable_ignore_status(outcome) == outcome # "missing"

\* no CalledProcessError and no FileNotFoundError
DockerAvailable(outcome) == outcome = "ok"

\* What subprocess.run does with the docker run command line: it returns an
\* exit status, or raises.
RunOutcomes ==
    {[kind |-> "exit", code |-> c] : c \in {0, 1}} \cup {[kind |-> "raise", code |-> 0]}

run_command(outcome, check) ==
    IF outcome.kind = "raise" \/ (check /\ outcome.code # 0)
    THEN [raised |-> TRUE, returncode |-> outcome.code]
    ELSE [raised |-> FALSE, returncode |-> outcome.code]

\* success only when archives were found as well
build_result_needs_artifacts(r, artifacts) ==
    IF r.raised THEN FALSE ELSE r.returncode = 0 /\ artifacts

\* The value build_for_platform returns: result == 0, or False from the
\* except clause.  The archives found are printed and nothing more.
build_result(r, artifacts) ==
    IF r.raised THEN FALSE ELSE r.returncode = 0

----------------------------------------------------------------------------
\* main

VARIABLES
    pc,                 \* position in main
    args_platforms,     \* args.platforms
    dry_run,            \* args.dry_run
    probe,              \* how docker --version ended, "none" before it
    platforms_to_build,
    idx,                \* position of the for loop in platforms_to_build
    results,            \* dict platform -> bool
    successful,
    exit_code,          \* process exit status, -1 while running
    uncaught,           \* an exception left main
    dirs,               \* directories present under the output root
    tarballs,           \* platform directories holding a *.tar.gz
    docker_calls,       \* docker command lines started by this process
    mkdir_calls,        \* paths passed to mkdir by this process
    mkdir_existing,     \* paths a mkdir of this process found existing
    returned,           \* how each docker run of this process ended
    recipes,            \* platforms whose recipe the dry run printed
    listed              \* platform directories listed after the summary

mainvars == <<pc, args_platforms, dry_run, probe, platforms_to_build, idx, results,
              successful, exit_code, uncaught, dirs, tarballs, docker_calls,
              mkdir_calls, mkdir_existing, returned, recipes, listed>>

\* build_for_platform, followed command by command in BuildSpec
VARIABLES
    b_pc,               \* position in build_for_platform
    platform_name,
    script_content,
    full_script,        \* words of the joined script: command, operator, command, ...
    sh_pos,             \* index in full_script of the command bash is at
    sh_status,          \* $? of the list so far
    sh_ran,             \* commands executed, with their statuses
    b_outcome,          \* what subprocess.run did with the docker command line
    b_return            \* value returned by build_for_platform

buildvars == <<b_pc, platform_name, script_content, full_script, sh_pos,
               sh_status, sh_ran, b_outcome, b_return>>

EmptyResults == [p \in {} |-> FALSE]

ProcStart ==
    /\ pc = "parse"
    /\ args_platforms = <<>>
    /\ dry_run = FALSE
    /\ probe = "none"
    /\ platforms_to_build = <<>>
    /\ idx = 0
    /\ results = EmptyResults
    /\ successful = 0
    /\ exit_code = -1
    /\ uncaught = FALSE
    /\ docker_calls = <<>>
    /\ mkdir_calls = <<>>
    /\ mkdir_existing = {}
    /\ returned = <<>>
    /\ recipes = <<>>
    /\ listed = {}

MainInit ==
    /\ ProcStart
    /\ dirs = {}
    /\ tarballs = {}

\* parser.parse_args()
ParseArgs ==
    /\ pc = "parse"
    /\ \E a \in ArgLists, d \in BOOLEAN :
          /\ args_platforms' = a
          /\ dry_run' = d
    /\ pc' = "probe"
    /\ UNCHANGED <<probe, platforms_to_build, idx, results, successful, exit_code,
                   uncaught, dirs, tarballs, docker_calls, mkdir_calls,
                   mkdir_existing, returned, recipes, listed>>
    /\ UNCHANGED buildvars

\* docker --version; sys.exit(1) when it is not available
ProbeDocker ==
    /\ pc = "probe"
    /\ docker_calls' = Append(docker_calls, "--version")
    /\ \E o \in ProbeOutcomes :
          /\ probe' = o
          /\ IF DockerAvailable(o)
             THEN pc' = "select" /\ UNCHANGED exit_code
             ELSE pc' = "exit" /\ exit_code' = 1
    /\ UNCHANGED <<args_platforms, dry_run, platforms_to_build, idx, results,
                   successful, uncaught, dirs, tarballs, mkdir_calls,
                   mkdir_existing, returned, recipes, listed>>
    /\ UNCHANGED buildvars

\* 'all' expanded only when it is the whole list
Selected_all_alone(a) ==
    IF a = <<"all">> THEN PlatformKeys
    ELSE SelectSeq(a, LAMBDA p : p # "all")

\* if "all" in args.platforms: every registry key, else the list as given
Selected(a) == IF "all" \in Range(a) THEN PlatformKeys ELSE a

\* --dry-run without effect
Mode_flag_ignored(dry) == "mkdir"

\* if args.dry_run: ... return

Mode(dry) == IF dry THEN "dry_run" ELSE "mkdir"

SelectPlatforms ==
    /\ pc = "select"
    /\ platforms_to_build' = Selected(args_platforms)
    /\ pc' = Mode(dry_run)
    /\ UNCHANGED <<probe, args_platforms, dry_run, idx, results, successful,
                   exit_code, uncaught, dirs, tarballs, docker_calls,
                   mkdir_calls, mkdir_existing, returned, recipes, listed>>
    /\ UNCHANGED buildvars

\* if args.dry_run: print every recipe; return
DryRun ==
    /\ pc = "dry_run"
    /\ recipes' = platforms_to_build
    /\ pc' = "exit"
    /\ exit_code' = 0
    /\ UNCHANGED <<probe, args_platforms, dry_run, platforms_to_build, idx, results,
                   successful, uncaught, dirs, tarballs, docker_calls,
                   mkdir_calls, mkdir_existing, returned, listed>>
    /\ UNCHANGED buildvars

\* args.output_dir.mkdir(parents=True, exist_ok=True); results = {}
MakeOutputDir ==
    /\ pc = "mkdir"
    /\ LET m == Mkdir(dirs, Root) IN
          /\ mkdir_calls' = Append(mkdir_calls, Root)
          /\ mkdir_existing' = mkdir_existing \cup ({Root} \cap dirs)
          /\ dirs' = m.dirs
          /\ IF m.raised
             THEN pc' = "exit" /\ exit_code' = 1 /\ uncaught' = TRUE /\ idx' = idx
             ELSE pc' = "loop" /\ idx' = 1 /\ UNCHANGED <<exit_code, uncaught>>
    /\ results' = EmptyResults
    /\ UNCHANGED <<args_platforms, dry_run, probe, platforms_to_build,
                   successful, tarballs, docker_calls, returned, recipes,
                   listed>>
    /\ UNCHANGED buildvars

\* build_for_platform up to the docker command line: the platform output
\* directory is made outside the try block.
BuildStart ==
    /\ pc = "loop"
    /\ idx <= Len(platforms_to_build)
    /\ LET platform == platforms_to_build[idx]
           m == Mkdir(dirs, platform)
       IN /\ mkdir_calls' = Append(mkdir_calls, platform)
          /\ mkdir_existing' = mkdir_existing \cup ({platform} \cap dirs)
          /\ dirs' = m.dirs
          /\ IF m.raised
             THEN pc' = "exit" /\ exit_code' = 1 /\ uncaught' = TRUE
             ELSE pc' = "container" /\ UNCHANGED <<exit_code, uncaught>>
    /\ UNCHANGED <<args_platforms, dry_run, probe, platforms_to_build, idx,
                   results, successful, tarballs, docker_calls, returned,
                   recipes, listed>>
    /\ UNCHANGED buildvars

Kind(o) == IF o.kind = "raise" THEN "raise"
           ELSE IF o.code = 0 THEN "zero" ELSE "nonzero"

\* results[platform] = success
record(res, platform, success) ==
    [p \in DOMAIN res \cup {platform} |-> IF p = platform THEN success ELSE res[p]]

\* The rest of build_for_platform: docker run returns or raises, the result
\* is stored and the loop moves on.  A container that ran may have copied
\* archives into the platform output directory.
ContainerReturns ==
    /\ pc = "container"
    /\ LET platform == platforms_to_build[idx] IN
       \E o \in RunOutcomes, copied \in BOOLEAN :
          /\ (o.kind = "raise") => ~copied
          /\ docker_calls' = Append(docker_calls, "run")
          /\ returned' = Append(returned, Kind(o))
          /\ tarballs' = IF copied THEN tarballs \cup {platform} ELSE tarballs
          /\ results' = record(results, platform,
                               build_result(run_command(o, FALSE),
                                            platform \in tarballs'))
    /\ idx' = idx + 1
    /\ pc' = "loop"
    /\ UNCHANGED <<probe, args_platforms, dry_run, platforms_to_build, successful,
                   exit_code, uncaught, dirs, mkdir_calls, mkdir_existing,
                   recipes, listed>>
    /\ UNCHANGED buildvars

Count(res) == Cardinality({p \in DOMAIN res : res[p]})

\* the listing without the test on successful
listing_ungated(n, fs_dirs, fs_tarballs) ==
    {d \in fs_dirs \ {Root} : d \in fs_tarballs}

\* if successful > 0: for platform_dir in output_dir.iterdir(): the
\* directories holding *.tar.gz
listing(n, fs_dirs, fs_tarballs) ==
    IF n > 0 THEN {d \in fs_dirs \ {Root} : d \in fs_tarballs} ELSE {}

\* if successful < len(results): sys.exit(1)
exit_status(n, total) == IF n < total THEN 1 ELSE 0

\* Build summary, artifact listing and exit code
Summarize ==
    /\ pc = "loop"
    /\ idx > Len(platforms_to_build)
    /\ successful' = Count(results)
    /\ listed' = listing(successful', dirs, tarballs)
    /\ exit_code' = exit_status(successful', Cardinality(DOMAIN results))
    /\ pc' = "exit"
    /\ UNCHANGED <<probe, args_platforms, dry_run, platforms_to_build, idx, results,
                   uncaught, dirs, tarballs, docker_calls, mkdir_calls,
                   mkdir_existing, returned, recipes>>
    /\ UNCHANGED buildvars

\* The script is started again; only the file system is carried over.
RunAgain ==
    /\ pc = "exit"
    /\ pc' = "parse"
    /\ args_platforms' = <<>>
    /\ dry_run' = FALSE
    /\ probe' = "none"
    /\ platforms_to_build' = <<>>
    /\ idx' = 0
    /\ results' = EmptyResults
    /\ successful' = 0
    /\ exit_code' = -1
    /\ uncaught' = FALSE
    /\ docker_calls' = <<>>
    /\ mkdir_calls' = <<>>
    /\ mkdir_existing' = {}
    /\ returned' = <<>>
    /\ recipes' = <<>>
    /\ listed' = {}
    /\ UNCHANGED <<dirs, tarballs>>
    /\ UNCHANGED buildvars

----------------------------------------------------------------------------
\* build_for_platform and the script it hands to bash -c

BUILD == "python3 pack.py build"
CP_TAR == "cp -v output_*.tar.gz /output_host/ 2>/dev/null"
NO_TAR == "echo 'No tar.gz files to copy'"
CP_LOGS == "cp -rv output_logs /output_host/ 2>/dev/null"
NO_LOGS == "echo 'No output_logs to copy'"
LS == "ls -la /output_host/"

\* the copies without their || echo
fixed_commands_no_fallback ==
    << <<"echo 'System setup completed'">>,
       <<"echo 'Building for system: $SYSTEM_NAME'">>,
       <<"echo 'Architecture: $(uname -m)'">>,
       <<BUILD>>,
       <<"echo 'Build completed, copying artifacts...'">>,
       <<CP_TAR>>,
       <<CP_LOGS>>,
       <<LS>> >>

\* The entries appended after the setup commands.  An entry is written as
\* the words bash reads in it: simple commands separated by list operators.
fixed_commands ==
    << <<"echo 'System setup completed'">>,
       <<"echo 'Building for system: $SYSTEM_NAME'">>,
       <<"echo 'Architecture: $(uname -m)'">>,
       <<BUILD>>,
       <<"echo 'Build completed, copying artifacts...'">>,
       <<CP_TAR, "||", NO_TAR>>,
       <<CP_LOGS, "||", NO_LOGS>>,
       <<LS>> >>

\* script_content: the setup commands, then the fixed entries
ScriptContent(config) ==
    [i \in 1..Len(config.setup_commands) |-> <<config.setup_commands[i]>>]
        \o fixed_commands

\* sep.join(entries), as a list of words
RECURSIVE Join(_, _)
Join(entries, sep) ==
    IF Len(entries) = 0 THEN <<>>
    ELSE IF Len(entries) = 1 THEN entries[1]
    ELSE entries[1] \o <<sep>> \o Join(Tail(entries), sep)

\* bash: in an and-or list && and || have equal precedence and associate to
\* the left, so the command after an operator runs according to the status
\* of everything before it.
Runs(op, status) ==
    \/ op = "&&" /\ status = 0
    \/ op = "||" /\ status # 0

ExitStatuses == {0, 1}

NoOutcome == [kind |-> "none", code |-> 0]

BuildIdle ==
    /\ b_pc = "idle"
    /\ platform_name = ""
    /\ script_content = <<>>
    /\ full_script = <<>>
    /\ sh_pos = 0
    /\ sh_status = 0
    /\ sh_ran = <<>>
    /\ b_outcome = NoOutcome
    /\ b_return = FALSE

\* A call build_for_platform(platform_name, config, workspace_dir, output_dir)
\* made by main's loop: the output root exists, the platform directory may
\* be left from an earlier build.
BuildInit ==
    /\ ProcStart
    /\ platform_name \in Range(PlatformKeys)
    /\ dirs \in {{Root}, {Root, platform_name}}
    /\ tarballs \in SUBSET (dirs \ {Root})
    /\ b_pc = "start"
    /\ script_content = <<>>
    /\ full_script = <<>>
    /\ sh_pos = 0
    /\ sh_status = 0
    /\ sh_ran = <<>>
    /\ b_outcome = NoOutcome
    /\ b_return = FALSE

buildframe == <<pc, args_platforms, dry_run, probe, platforms_to_build, idx, results,
                successful, exit_code, uncaught, mkdir_existing, returned,
                recipes, listed>>

\* Lines 72-118: make the platform directory, assemble the docker command
\* line and the script.
BuildAssemble ==
    /\ b_pc = "start"
    /\ dirs' = Mkdir(dirs, platform_name).dirs
    /\ mkdir_calls' = Append(mkdir_calls, platform_name)
    /\ script_content' = ScriptContent(PLATFORM_CONFIGS[platform_name])
    /\ full_script' = Join(script_content', "&&")
    /\ b_pc' = "invoke"
    /\ UNCHANGED <<platform_name, sh_pos, sh_status, sh_ran, b_outcome,
                   b_return, tarballs, docker_calls>>
    /\ UNCHANGED buildframe

\* subprocess.run raises before any container runs
InvokeRaises ==
    /\ b_pc = "invoke"
    /\ docker_calls' = Append(docker_calls, "run")
    /\ b_outcome' = [kind |-> "raise", code |-> 0]
    /\ b_pc' = "returning"
    /\ UNCHANGED <<platform_name, script_content, full_script, sh_pos,
                   sh_status, sh_ran, b_return, dirs, tarballs, mkdir_calls>>
    /\ UNCHANGED buildframe

\* docker run fails without starting the script (docker's own status, 125)
DockerFails ==
    /\ b_pc = "invoke"
    /\ docker_calls' = Append(docker_calls, "run")
    /\ b_outcome' = [kind |-> "exit", code |-> 125]
    /\ b_pc' = "returning"
    /\ UNCHANGED <<platform_name, script_content, full_script, sh_pos,
                   sh_status, sh_ran, b_return, dirs, tarballs, mkdir_calls>>
    /\ UNCHANGED buildframe

\* The container starts and bash runs the first command of the script
ContainerStarts ==
    /\ b_pc = "invoke"
    /\ docker_calls' = Append(docker_calls, "run")
    /\ b_pc' = "script"
    /\ sh_pos' = 1
    /\ UNCHANGED <<platform_name, script_content, full_script, sh_status,
                   sh_ran, b_outcome, b_return, dirs, tarballs, mkdir_calls>>
    /\ UNCHANGED buildframe

\* bash executes the command at sh_pos.  A copy of archives that succeeds
\* leaves a *.tar.gz in the platform directory; one that fails may have
\* copied some of them.
ShellRun ==
    /\ b_pc = "script"
    /\ sh_pos <= Len(full_script)
    /\ IF sh_pos = 1 THEN TRUE ELSE Runs(full_script[sh_pos - 1], sh_status)
    /\ \E st \in ExitStatuses, copied \in BOOLEAN :
          /\ (full_script[sh_pos] # CP_TAR) => ~copied
          /\ (full_script[sh_pos] = CP_TAR /\ st = 0) => copied
          /\ sh_status' = st
          /\ sh_ran' = Append(sh_ran, [cmd |-> sh_pos, status |-> st])
          /\ tarballs' = IF copied THEN tarballs \cup {platform_name} ELSE tarballs
    /\ sh_pos' = sh_pos + 2
    /\ UNCHANGED <<b_pc, platform_name, script_content, full_script,
                   b_outcome, b_return, dirs, docker_calls, mkdir_calls>>
    /\ UNCHANGED buildframe

\* bash passes over the command at sh_pos
ShellSkip ==
    /\ b_pc = "script"
    /\ sh_pos <= Len(full_script)
    /\ sh_pos # 1
    /\ ~Runs(full_script[sh_pos - 1], sh_status)
    /\ sh_pos' = sh_pos + 2
    /\ UNCHANGED <<b_pc, platform_name, script_content, full_script,
                   sh_status, sh_ran, b_outcome, b_return, dirs, tarballs,
                   docker_calls, mkdir_calls>>
    /\ UNCHANGED buildframe

\* The script is over: the container, and docker run, exit with its status
ShellExit ==
    /\ b_pc = "script"
    /\ sh_pos > Len(full_script)
    /\ b_outcome' = [kind |-> "exit", code |-> sh_status]
    /\ b_pc' = "returning"
    /\ UNCHANGED <<platform_name, script_content, full_script, sh_pos,
                   sh_status, sh_ran, b_return, dirs, tarballs, docker_calls,
                   mkdir_calls>>
    /\ UNCHANGED buildframe

\* Lines 123-140: the status is compared with 0, or the exception is caught
BuildReturn ==
    /\ b_pc = "returning"
    /\ b_return' = build_result(run_command(b_outcome, FALSE),
                                platform_name \in tarballs)
    /\ b_pc' = "done"
    /\ UNCHANGED <<platform_name, script_content, full_script, sh_pos,
                   sh_status, sh_ran, b_outcome, dirs, tarballs, docker_calls,
                   mkdir_calls>>
    /\ UNCHANGED buildframe

BuildNext ==
    \/ BuildAssemble
    \/ InvokeRaises
    \/ DockerFails
    \/ ContainerStarts
    \/ ShellRun
    \/ ShellSkip
    \/ ShellExit
    \/ BuildReturn

vars == <<mainvars, buildvars>>

Init == MainInit /\ BuildIdle

Next ==
    \/ ParseArgs
    \/ ProbeDocker
    \/ SelectPlatforms
    \/ DryRun
    \/ MakeOutputDir
    \/ BuildStart
    \/ ContainerReturns
    \/ Summarize
    \/ RunAgain

Spec == Init /\ [][Next]_vars

BuildSpec == BuildInit /\ [][BuildNext]_vars

----------------------------------------------------------------------------
\* Properties

Requested == IF "all" \in Range(args_platforms)
             THEN PlatformKeys ELSE args_platforms

\* main ran its normal mode to the end
NormalRunOver == pc = "exit" /\ ~dry_run /\ probe = "ok"

AllZero == \A i \in 1..Len(returned) : returned[i] = "zero"

SomeNonzero == \E i \in 1..Len(returned) : returned[i] = "nonzero"

ArchiveDirs == {d \in dirs \ {Root} : d \in tarballs}

\* C1: in normal mode with the probe succeeding, main exits 0 if every
\* docker run of the process returned status 0, and exits 1 if any of them
\* returned a nonzero status, for every accepted --platforms list.
ExitCodeFollowsInvocations ==
    NormalRunOver =>
        /\ AllZero => exit_code = 0
        /\ SomeNonzero => exit_code = 1

\* C2: in normal mode the selected platforms are attempted one at a time in
\* selection order whatever the earlier outcomes; a nonzero exit or a raised
\* exception marks that platform, and only it, FAILED and makes the exit
\* code 1.
AttemptsInOrderFailuresIsolated ==
    /\ (pc \in {"loop", "container"}) =>
          /\ Len(returned) = idx - 1
          /\ mkdir_calls = <<Root>> \o
                SubSeq(platforms_to_build, 1,
                       IF pc = "container" THEN idx ELSE idx - 1)
          /\ docker_calls = <<"--version">> \o [i \in 1..(idx - 1) |-> "run"]
    /\ NormalRunOver =>
          /\ Len(returned) = Len(platforms_to_build)
          /\ \A i \in 1..Len(returned) :
                returned[i] # "zero" =>
                   /\ ~results[platforms_to_build[i]]
                   /\ exit_code = 1
          /\ \A p \in DOMAIN results :
                (\A i \in 1..Len(returned) :
                    platforms_to_build[i] = p => returned[i] = "zero")
                => results[p]

\* C3 as stated: in dry-run mode the run never invokes the container
\* runtime and never creates a directory, prints the recipe of each selected
\* platform and exits 0.
DryRunNeverInvokesRuntime ==
    dry_run =>
        /\ docker_calls = <<>>
        /\ mkdir_calls = <<>>
        /\ pc = "exit" => (exit_code = 0 /\ recipes = Requested)

\* C3 amended: in dry-run mode the only use of the container runtime is the
\* availability probe; no directory is made and no container is run; after
\* a successful probe the recipes of the selected platforms are printed and
\* the exit code is 0, after a failed probe nothing is printed and it is 1.
DryRunOnlyProbes ==
    dry_run =>
        /\ mkdir_calls = <<>>
        /\ docker_calls \in {<<>>, <<"--version">>}
        /\ returned = <<>>
        /\ results = EmptyResults
        /\ (pc = "exit" /\ probe = "ok") =>
              (exit_code = 0 /\ recipes = Requested)
        /\ (pc = "exit" /\ probe # "ok") =>
              (exit_code = 1 /\ recipes = <<>>)

DryRunPrintedAll ==
    /\ dry_run
    /\ pc = "exit"
    /\ probe = "ok"
    /\ recipes = PlatformKeys
    /\ dirs = {}

\* C4: when the docker --version probe fails, by nonzero exit or by a
\* missing executable, the process exits 1 at once: no directory is made and
\* no platform is built, with or without --dry-run.
ProbeFailureAborts ==
    probe \in {"nonzero", "missing"} =>
        /\ pc = "exit"
        /\ exit_code = 1
        /\ mkdir_calls = <<>>
        /\ docker_calls = <<"--version">>
        /\ platforms_to_build = <<>>
        /\ returned = <<>>
        /\ results = EmptyResults
        /\ recipes = <<>>

ProbeMissingInDryRun ==
    /\ probe = "missing"
    /\ dry_run
    /\ pc = "exit"
    /\ exit_code = 1
    /\ "all" \in Range(args_platforms)

\* C5: build_for_platform returns true exactly when docker run exited with
\* status 0; a nonzero status and a raised exception both give false, and
\* the archives in the platform directory play no part.
ReturnIsExitZero ==
    b_pc = "done" =>
        (b_return <=> (b_outcome.kind = "exit" /\ b_outcome.code = 0))

SuccessWithoutArchive ==
    /\ b_pc = "done"
    /\ b_return
    /\ platform_name \notin tarballs

\* C6: in normal mode results holds one boolean per requested registry
\* identifier: a single identifier gives the one key, 'all' (alone or with
\* others) gives the four registry keys, and then with every docker run
\* returning 0 the summary counts 4 of 4 and the exit code is 0.
OneResultPerRequested ==
    NormalRunOver =>
        /\ DOMAIN results = Range(Requested)
        /\ \A p \in DOMAIN results : results[p] \in BOOLEAN
        /\ (Len(args_platforms) = 1 /\ args_platforms[1] # "all") =>
              DOMAIN results = {args_platforms[1]}
        /\ ("all" \in Range(args_platforms)) =>
              /\ DOMAIN results = Range(PlatformKeys)
              /\ Cardinality(DOMAIN results) = 4
              /\ AllZero => (successful = 4 /\ exit_code = 0)

AllAlongsideOthersFourOfFour ==
    /\ NormalRunOver
    /\ Len(args_platforms) = 2
    /\ args_platforms[1] # "all"
    /\ args_platforms[2] = "all"
    /\ successful = 4
    /\ exit_code = 0

\* Script commands
Ran(c) == \E k \in 1..Len(sh_ran) : full_script[sh_ran[k].cmd] = c

Failed(c) ==
    \E k \in 1..Len(sh_ran) :
        full_script[sh_ran[k].cmd] = c /\ sh_ran[k].status # 0

SetupAndBuild ==
    Range(PLATFORM_CONFIGS[platform_name].setup_commands) \cup {BUILD}

\* C7: in the assembled script a setup command or the build command that
\* exits nonzero is the last command executed, the container exits nonzero
\* and the platform is reported as failed.
FailingStepAborts ==
    b_pc = "done" =>
        \A k \in 1..Len(sh_ran) :
            (sh_ran[k].status # 0 /\ full_script[sh_ran[k].cmd] \in SetupAndBuild)
            => /\ k = Len(sh_ran)
               /\ b_outcome.kind = "exit"
               /\ b_outcome.code # 0
               /\ ~b_return

\* C8: when the script ran and nothing but the copy steps failed, each
\* failed copy is followed by its message, the other copy and the listing
\* still run, the container exits 0 and build_for_platform returns true.
CopyFailureSwallowed ==
    (/\ b_pc = "done"
     /\ sh_ran # <<>>
     /\ \A k \in 1..Len(sh_ran) :
           sh_ran[k].status # 0 => full_script[sh_ran[k].cmd] \in {CP_TAR, CP_LOGS})
    => /\ b_outcome = [kind |-> "exit", code |-> 0]
       /\ b_return
       /\ Ran(CP_TAR) /\ Ran(CP_LOGS) /\ Ran(LS)
       /\ Failed(CP_TAR) <=> Ran(NO_TAR)
       /\ Failed(CP_LOGS) <=> Ran(NO_LOGS)

BothCopiesFailedStillSuccess ==
    /\ b_pc = "done"
    /\ Failed(CP_TAR)
    /\ Failed(CP_LOGS)
    /\ Ran(LS)
    /\ b_return

\* C9 as stated: after the summary the archive directories are listed
\* whenever some platform directory holds a *.tar.gz, however many platforms
\* succeeded.
ListsWheneverArchives ==
    NormalRunOver => (ArchiveDirs # {} => listed = ArchiveDirs)

\* C9 amended: the directories holding a *.tar.gz are listed when at least
\* one platform was reported successful; when none was, nothing is listed
\* even though archives are present.
ListsOnlyAfterSuccess ==
    NormalRunOver =>
        listed = IF \E p \in DOMAIN results : results[p]
                 THEN ArchiveDirs ELSE {}

ArchivesUnlistedWithoutSuccess ==
    /\ NormalRunOver
    /\ \A p \in DOMAIN results : ~results[p]
    /\ ArchiveDirs # {}
    /\ listed = {}

\* C10: in normal mode the output root and the platform directory exist
\* when the container is launched and after every attempt; no mkdir raises
\* on a directory that is already there, so a run over the directories of an
\* earlier run reaches every build.
OutputDirsReady ==
    /\ ~uncaught
    /\ pc = "container" =>
          (Root \in dirs /\ platforms_to_build[idx] \in dirs)
    /\ (pc \in {"loop", "container"} \/ NormalRunOver) =>
          /\ Root \in dirs
          /\ \A i \in 1..Len(returned) : platforms_to_build[i] \in dirs
    /\ NormalRunOver => Len(returned) = Len(platforms_to_build)

SecondRunReachesContainer ==
    /\ pc = "container"
    /\ Len(platforms_to_build) = 1
    /\ mkdir_existing = {Root, platforms_to_build[1]}
    /\ platforms_to_build[1] \in tarballs

====
